---- MODULE Spec2Model ----
(***************************************************************************)
(* BPPS instance generator (src/generator/bpps_instance_generator.py).     *)
(*                                                                         *)
(* The sweep driver (generate_instances) walks the cross-product of the    *)
(* seven dimension lists of an InstanceConfig; for every tuple the builder *)
(* (_generate_single_instance) runs rejection sampling, reseeding the      *)
(* module-level random generator with seed + k before every attempt, and   *)
(* the encoder (_write_instance_file) writes the accepted draw.            *)
(*                                                                         *)
(* Modelling conventions                                                   *)
(*  - A fraction v is held as its number of hundredths (0.15 is 15), so    *)
(*    floor(d * v) is (d * v) \div 100.  For the capacities and fractions   *)
(*    of the bounded sets below the floating-point product and the exact   *)
(*    one have the same floor and ceiling.                                 *)
(*  - Python's random module is a deterministic generator: seed(a) puts it *)
(*    in a state that depends on a alone, and every randint advances it.   *)
(*    The Mersenne Twister is library code; it is represented by a family  *)
(*    of congruential generators indexed by gen, fixed for a behaviour.    *)
(*    Before the first seed() the generator holds a state taken from the   *)
(*    operating system, which Init leaves open.                            *)
(*  - A file is the sequence of its lines, a line the tuple of its         *)
(*    tab-separated integer fields; a file name is the sequence of its     *)
(*    characters.  The output directory maps names to files.               *)
(***************************************************************************)
EXTENDS Integers, Sequences, FiniteSets, TLC

VARIABLES
    config,               \* the InstanceConfig of the generator
    gen,                  \* which generator of the family stands for random
    rngState,             \* state of the module-level random generator
    files,                \* the output directory: file name -> lines
    pc,                   \* "sweep", "build", "done" (statistics returned), "error" (exception left generate_instances)
    run,                  \* 1 for the first call of generate_instances, 2 for the second
    idx,                  \* number of tuples of the cross-product the loops have completed
    total_instances,      \* generate_instances local
    successful_instances, \* generate_instances local
    failed_instances,     \* generate_instances local
    statistics,           \* <<>> until generate_instances returns, then <<the dictionary>>
    found,                \* _generate_single_instance local
    k,                    \* _generate_single_instance local
    lastSeed,             \* history: argument of the last random.seed call
    lastDraws,            \* history: kinds of the random draws of the last attempt, in order
    lastSample,           \* history: data drawn by the last attempt
    writes,               \* history: calls of _write_instance_file in the current builder invocation
    dirBefore,            \* history: the directory when the current builder invocation started
    outcomes,             \* history: per completed tuple, what the builder returned and wrote
    prevFiles,            \* history: the directory when the first run returned
    prevStats             \* history: the statistics the first run returned

vars == <<config, gen, rngState, files, pc, run, idx, total_instances,
          successful_instances, failed_instances, statistics, found, k,
          lastSeed, lastDraws, lastSample, writes, dirBefore, outcomes,
          prevFiles, prevStats>>

-----------------------------------------------------------------------------
(* Bounds of the model *)

\* number of generators in the family standing for the random module
NumGens == 2

\* largest cross-product a configuration of the model may span
MaxCombos == 4

\* retry ceiling of the builder
max_attempts == 1000

CapacityLists == { <<10>>, <<10, 20>> }
ItemCountLists == { <<4>>, <<1, 4>>, <<1, 4, 3>> }
ClassCountLists == { <<2>>, <<3, 2>> }
ItemRangeLists == { << <<10, 20>> >>, << <<10, 20>>, <<15, 20>> >>, <<>> }
SetupRangeLists == { << <<10, 20>> >>, << <<0, 10>>, <<10, 20>> >> }
FlagLists == { <<0>>, <<0, 1>> }
SeedLists == { <<0, 1>>, <<0, 1, 2>>, <<3>>, <<>> }
MinItemsValues == { 0, 1, 2 }

\* fraction pairs with min > max: the first two give inverted integer bounds
\* for every capacity of the model, the last one does not
BadItemRangeLists == { << <<30, 10>> >>, << <<10, 20>>, <<30, 10>> >>, << <<15, 11>> >> }
BadSetupRangeLists == { << <<40, 10>> >>, << <<10, 20>>, <<40, 10>> >> }

\* states the generator may hold before the first random.seed
RngStartStates == { 1, 20011 }

-----------------------------------------------------------------------------
(* InstanceConfig and the cross-product *)

InstanceConfig(caps, items, classes, wr, sr, flags, seeds, minItems) ==
    [ capacities |-> caps, num_items |-> items, num_classes |-> classes,
      item_weight_ranges |-> wr, setup_weight_ranges |-> sr,
      setup_cost_flags |-> flags, seeds |-> seeds,
      min_items_per_class |-> minItems ]

TotalCombos(c) ==
    Len(c.num_classes) * Len(c.num_items) * Len(c.capacities)
      * Len(c.item_weight_ranges) * Len(c.setup_weight_ranges)
      * Len(c.setup_cost_flags) * Len(c.seeds)

\* The i-th tuple (i in 1..TotalCombos(c)) the nested loops reach:
\* m outermost, then n, d, (v1, v2), (s1, s2), f, and seed innermost.
Tuple(c, i) ==
    LET z  == i - 1
        nS == Len(c.seeds)
        nF == Len(c.setup_cost_flags)
        nR == Len(c.setup_weight_ranges)
        nW == Len(c.item_weight_ranges)
        nD == Len(c.capacities)
        nN == Len(c.num_items)
        q1 == z \div nS
        q2 == q1 \div nF
        q3 == q2 \div nR
        q4 == q3 \div nW
        q5 == q4 \div nD
        q6 == q5 \div nN
    IN  [ m    |-> c.num_classes[q6 + 1],
          n    |-> c.num_items[(q5 % nN) + 1],
          d    |-> c.capacities[(q4 % nD) + 1],
          v1   |-> c.item_weight_ranges[(q3 % nW) + 1][1],
          v2   |-> c.item_weight_ranges[(q3 % nW) + 1][2],
          s1   |-> c.setup_weight_ranges[(q2 % nR) + 1][1],
          s2   |-> c.setup_weight_ranges[(q2 % nR) + 1][2],
          f    |-> c.setup_cost_flags[(q1 % nF) + 1],
          seed |-> c.seeds[(z % nS) + 1] ]

\* floor(d * v) and ceil(d * v) for a fraction v given in hundredths
floor(d, v) == (d * v) \div 100
ceil(d, v) == -((-(d * v)) \div 100)

\* the integer bounds the builder derives, with the fields the file name uses
Derived(t) ==
    [ d |-> t.d, n |-> t.n, m |-> t.m,
      w_min |-> floor(t.d, t.v1), w_max |-> ceil(t.d, t.v2),
      s_min |-> floor(t.d, t.s1), s_max |-> ceil(t.d, t.s2),
      f |-> t.f, seed |-> t.seed ]

-----------------------------------------------------------------------------
(* File names *)

Digit(i) == <<"0", "1", "2", "3", "4", "5", "6", "7", "8", "9">>[i + 1]

RECURSIVE Decimal(_)
\* str(i) for a non-negative integer
Decimal(i) == IF i < 10 THEN <<Digit(i)>> ELSE Decimal(i \div 10) \o <<Digit(i % 10)>>

\* "{i}" inside an f-string
Str(i) == IF i < 0 THEN <<"-">> \o Decimal(-i) ELSE Decimal(i)

\* a name that leaves the seed out
filename_without_seed(d, n, m, w_min, w_max, s_min, s_max, f, seed) ==
    <<"b", "p", "p", "s", "_", "d">> \o Str(d) \o <<"n">> \o Str(n)
      \o <<"m">> \o Str(m) \o <<"w">> \o Str(w_min) \o <<"_">> \o Str(w_max)
      \o <<"s">> \o Str(s_min) \o <<"_">> \o Str(s_max) \o <<"f">> \o Str(f)
      \o <<".", "t", "x", "t">>

\* f"bpps_d{d}n{n}m{m}w{w_min}_{w_max}s{s_min}_{s_max}f{f}_seed{seed}.txt"
_generate_filename(d, n, m, w_min, w_max, s_min, s_max, f, seed) ==
    <<"b", "p", "p", "s", "_", "d">> \o Str(d) \o <<"n">> \o Str(n)
      \o <<"m">> \o Str(m) \o <<"w">> \o Str(w_min) \o <<"_">> \o Str(w_max)
      \o <<"s">> \o Str(s_min) \o <<"_">> \o Str(s_max) \o <<"f">> \o Str(f)
      \o <<"_", "s", "e", "e", "d">> \o Str(seed) \o <<".", "t", "x", "t">>

FileName(t) ==
    LET p == Derived(t)
    IN  _generate_filename(p.d, p.n, p.m, p.w_min, p.w_max, p.s_min, p.s_max, p.f, p.seed)

-----------------------------------------------------------------------------
(* The random module *)

LcgMul(g) == 4 * (1293 + 977 * g) + 1
LcgInc(g) == 2 * (6925 + 101 * g) + 1

\* the generator's next state
genrand(g, x) == (x * LcgMul(g) + LcgInc(g)) % 32768

\* random.seed(a): the new state depends on a alone, not on the state cur it replaces
random_seed(g, cur, a) == genrand(g, (a * 2053 + g + 1) % 32768)

\* a randint that never raises: an empty range yields its lower end
randint_unchecked(g, x, a, b) ==
    IF a > b
    THEN [ raised |-> FALSE, value |-> a, x |-> genrand(g, x) ]
    ELSE [ raised |-> FALSE, value |-> a + ((x \div 128) % (b - a + 1)), x |-> genrand(g, x) ]

\* random.randint(a, b): raises ValueError on an empty range, else draws from a..b
randint(g, x, a, b) ==
    IF a > b
    THEN [ raised |-> TRUE, value |-> 0, x |-> x ]
    ELSE [ raised |-> FALSE, value |-> a + ((x \div 128) % (b - a + 1)), x |-> genrand(g, x) ]

-----------------------------------------------------------------------------
(* One attempt of the builder: the body of the while loop up to the test *)

\* a draw that succeeded is appended to the attempt's record of draws
Drawn(st, r, kind) == IF r.raised THEN st.draws ELSE Append(st.draws, kind)

RECURSIVE DrawSetupCosts(_, _, _, _)
\* {cl: random.randint(1, 5) for cl in range(m)}
DrawSetupCosts(g, st, cl, m) ==
    IF cl >= m \/ st.raised THEN st
    ELSE LET r == randint(g, st.x, 1, 5)
         IN  DrawSetupCosts(g, [ st EXCEPT !.x = r.x, !.raised = r.raised,
                                           !.draws = Drawn(st, r, "setup_cost"),
                                           !.setup_costs = Append(@, r.value) ],
                            cl + 1, m)

RECURSIVE AssignItems(_, _, _, _, _, _, _)
\* for j in range(n): class_id, then item_weight, appended to classes[class_id]
AssignItems(g, st, j, n, m, w_min, w_max) ==
    IF j >= n \/ st.raised THEN st
    ELSE LET c   == randint(g, st.x, 0, m - 1)
             st1 == [ st EXCEPT !.x = c.x, !.raised = c.raised,
                                !.draws = Drawn(st, c, "class_id") ]
             w   == randint(g, st1.x, w_min, w_max)
             st2 == [ st1 EXCEPT !.x = w.x, !.raised = w.raised,
                                 !.draws = Drawn(st1, w, "item_weight"),
                                 !.classes = IF w.raised THEN @
                                             ELSE [ @ EXCEPT ![c.value + 1] = Append(@, w.value) ] ]
         IN  IF c.raised THEN st1
             ELSE AssignItems(g, st2, j + 1, n, m, w_min, w_max)

RECURSIVE FlattenButLast(_, _)
\* a flattening that stops before the last class
FlattenButLast(classes, cl) ==
    IF cl >= Len(classes) THEN <<>> ELSE classes[cl] \o FlattenButLast(classes, cl + 1)

RECURSIVE Flatten(_, _)
\* items: the weights of classes 0 .. m-1 (held at 1 .. m), class after class
Flatten(classes, cl) ==
    IF cl > Len(classes) THEN <<>> ELSE classes[cl] \o Flatten(classes, cl + 1)

RECURSIVE DrawSetupWeights(_, _, _, _, _, _)
\* for cl in classes: setups[cl] = random.randint(s_min, s_max)
DrawSetupWeights(g, st, cl, m, s_min, s_max) ==
    IF cl >= m \/ st.raised THEN st
    ELSE LET r == randint(g, st.x, s_min, s_max)
         IN  DrawSetupWeights(g, [ st EXCEPT !.x = r.x, !.raised = r.raised,
                                             !.draws = Drawn(st, r, "setup_weight"),
                                             !.setups = Append(@, r.value) ],
                              cl + 1, m, s_min, s_max)

\* the data of an attempt before anything is drawn
Blank(x, m, f) ==
    [ x |-> x, raised |-> FALSE, draws |-> <<>>,
      classes |-> [ cl \in 1..m |-> <<>> ],
      setup_costs |-> IF f = 0 THEN [ cl \in 1..m |-> 0 ] ELSE <<>>,
      setups |-> <<>>, items |-> <<>>,
      bin_cost |-> IF f = 0 THEN 1 ELSE 10 ]

\* what a passed-over attempt leaves in the history variable
NoSample == Blank(0, 0, 0)

\* The draws as the specification orders them: items, setup weights, and the
\* setup costs last.
SampleCostsLast(g, x, p) ==
    LET a == AssignItems(g, Blank(x, p.m, p.f), 0, p.n, p.m, p.w_min, p.w_max)
        b == [ a EXCEPT !.items = Flatten(a.classes, 1) ]
        c == DrawSetupWeights(g, b, 0, p.m, p.s_min, p.s_max)
    IN  IF p.f = 0 THEN c ELSE DrawSetupCosts(g, c, 0, p.m)

\* The draws of one attempt from generator state x, for the derived parameters
\* p: setup costs (when f is not 0), then the items, then the setup weights.
Sample(g, x, p) ==
    LET a == IF p.f = 0 THEN Blank(x, p.m, p.f)
             ELSE DrawSetupCosts(g, Blank(x, p.m, p.f), 0, p.m)
        b == AssignItems(g, a, 0, p.n, p.m, p.w_min, p.w_max)
        c == [ b EXCEPT !.items = Flatten(b.classes, 1) ]
    IN  DrawSetupWeights(g, c, 0, p.m, p.s_min, p.s_max)

\* a test that looks at the first class only
AcceptedFirstClass(sample, m, minItems) == Len(sample.classes[1]) >= minItems

\* min([len(classes[i]) for i in range(m)]) >= self.config.min_items_per_class
Accepted(sample, m, minItems) ==
    \A cl \in 1..m : Len(sample.classes[cl]) >= minItems

\* every attempt reseeds with the base seed itself
SameSeed(seed, kk) == seed

\* offsets that keep the seed windows of distinct base seeds apart
DisjointSeed(seed, kk) == seed * max_attempts + kk

\* the argument of random.seed in attempt kk
EffectiveSeed(seed, kk) == seed + kk

\* the sample attempt kk of tuple t draws
SampleOf(g, t, kk) == Sample(g, random_seed(g, 0, EffectiveSeed(t.seed, kk)), Derived(t))

-----------------------------------------------------------------------------
(* The encoder *)

RECURSIVE ClassLines(_, _)
\* one line per non-empty class: -setup_cost, setup weight, item count
ClassLines(sample, cl) ==
    IF cl > Len(sample.classes) THEN <<>>
    ELSE (IF sample.classes[cl] # <<>>
          THEN << << -sample.setup_costs[cl], sample.setups[cl], Len(sample.classes[cl]) >> >>
          ELSE <<>>)
         \o ClassLines(sample, cl + 1)

\* the lines written: header, class definitions, one line per item weight
Encode(p, sample) ==
    << <<p.n, p.m, p.d, sample.bin_cost>> >>
      \o ClassLines(sample, 1)
      \o [ i \in 1..Len(sample.items) |-> <<sample.items[i]>> ]

\* a directory entry that grows instead of being replaced
AppendInstanceFile(dir, p, sample) ==
    LET name == _generate_filename(p.d, p.n, p.m, p.w_min, p.w_max, p.s_min, p.s_max, p.f, p.seed)
    IN  IF name \in DOMAIN dir
        THEN [ dir EXCEPT ![name] = @ \o Encode(p, sample) ]
        ELSE (name :> Encode(p, sample)) @@ dir

\* open(filepath, 'w') and the writes: the file is created or replaced
_write_instance_file(dir, p, sample) ==
    LET name == _generate_filename(p.d, p.n, p.m, p.w_min, p.w_max, p.s_min, p.s_max, p.f, p.seed)
    IN  (name :> Encode(p, sample)) @@ dir

-----------------------------------------------------------------------------
(* Configurations *)

\* configurations of the data model: every fraction pair ordered, lists
\* possibly empty
ValidConfigs ==
    { c \in { InstanceConfig(caps, items, classes, wr, sr, flags, seeds, minItems) :
                caps \in CapacityLists, items \in ItemCountLists,
                classes \in ClassCountLists, wr \in ItemRangeLists,
                sr \in SetupRangeLists, flags \in FlagLists,
                seeds \in SeedLists, minItems \in MinItemsValues } :
        TotalCombos(c) <= MaxCombos }

\* configurations with a fraction pair whose min exceeds its max
UnorderedConfigs ==
    { c \in { InstanceConfig(caps, items, classes, wr, sr, flags, seeds, minItems) :
                caps \in CapacityLists, items \in ItemCountLists,
                classes \in { <<2>> }, wr \in ItemRangeLists \cup BadItemRangeLists,
                sr \in { << <<10, 20>> >> } \cup BadSetupRangeLists, flags \in FlagLists,
                seeds \in SeedLists, minItems \in { 1 } } :
        /\ TotalCombos(c) <= MaxCombos
        /\ c.item_weight_ranges \in BadItemRangeLists \/ c.setup_weight_ranges \in BadSetupRangeLists }

EmptyDir == [ name \in {} |-> <<>> ]

\* a rate that is a fraction of one, not a percentage
success_fraction(successful, total) ==
    IF total > 0 THEN <<successful, total>> ELSE <<0, 1>>

\* successful_instances / total_instances * 100 if total_instances > 0 else 0,
\* as the fraction <<numerator, denominator>>
success_rate(successful, total) ==
    IF total > 0 THEN <<successful * 100, total>> ELSE <<0, 1>>

\* the tuple the loops stand at
Current == Tuple(config, idx + 1)

-----------------------------------------------------------------------------
(* The program *)

InitWith(configs) ==
    /\ config \in configs
    /\ gen \in 0..(NumGens - 1)
    /\ rngState \in RngStartStates
    /\ files = EmptyDir
    /\ pc = "sweep"
    /\ run = 1
    /\ idx = 0
    /\ total_instances = 0
    /\ successful_instances = 0
    /\ failed_instances = <<>>
    /\ statistics = <<>>
    /\ found = FALSE
    /\ k = 0
    /\ lastSeed = -1
    /\ lastDraws = <<>>
    /\ lastSample = NoSample
    /\ writes = 0
    /\ dirBefore = EmptyDir
    /\ outcomes = <<>>
    /\ prevFiles = EmptyDir
    /\ prevStats = <<>>

Init == InitWith(ValidConfigs)

InitAny == InitWith(ValidConfigs \cup UnorderedConfigs)

\* The loops of generate_instances reach the next tuple and call the builder,
\* which derives the bounds and enters its while loop.
StartTuple ==
    /\ pc = "sweep"
    /\ idx < TotalCombos(config)
    /\ total_instances' = total_instances + 1
    /\ found' = FALSE
    /\ k' = 0
    /\ writes' = 0
    /\ dirBefore' = files
    /\ lastDraws' = <<>>
    /\ lastSample' = NoSample
    /\ pc' = "build"
    /\ UNCHANGED <<config, gen, rngState, files, run, idx, successful_instances,
                   failed_instances, statistics, lastSeed, outcomes, prevFiles, prevStats>>

\* One iteration of the while loop of _generate_single_instance: reseed, draw,
\* test, write on acceptance, k += 1.  A ValueError out of randint leaves the
\* builder and generate_instances.
Attempt ==
    /\ pc = "build"
    /\ ~found
    /\ k < max_attempts
    /\ LET t == Current
           p == Derived(t)
           a == EffectiveSeed(t.seed, k)
           s == Sample(gen, random_seed(gen, rngState, a), p)
       IN  /\ lastSeed' = a
           /\ lastDraws' = s.draws
           /\ lastSample' = s
           /\ rngState' = s.x
           /\ IF s.raised
              THEN /\ pc' = "error"
                   /\ UNCHANGED <<found, k, files, writes>>
              ELSE /\ pc' = "build"
                   /\ k' = k + 1
                   /\ IF Accepted(s, p.m, config.min_items_per_class)
                      THEN /\ found' = TRUE
                           /\ files' = _write_instance_file(files, p, s)
                           /\ writes' = writes + 1
                      ELSE UNCHANGED <<found, files, writes>>
    /\ UNCHANGED <<config, gen, run, idx, total_instances, successful_instances,
                   failed_instances, statistics, dirBefore, outcomes, prevFiles, prevStats>>

\* a driver that leaves its loops at the first failed build
ReturnBreak ==
    /\ pc = "build"
    /\ found \/ k >= max_attempts
    /\ LET t == Current
       IN  /\ IF found
              THEN /\ successful_instances' = successful_instances + 1
                   /\ idx' = idx + 1
                   /\ UNCHANGED failed_instances
              ELSE /\ failed_instances' = Append(failed_instances, t)
                   /\ idx' = TotalCombos(config)
                   /\ UNCHANGED successful_instances
           /\ outcomes' = Append(outcomes,
                                 [ t |-> t, success |-> found, k |-> k,
                                   content |-> IF writes > 0 THEN files[FileName(t)] ELSE <<>> ])
    /\ pc' = "sweep"
    /\ UNCHANGED <<config, gen, rngState, files, run, total_instances, statistics,
                   found, k, lastSeed, lastDraws, lastSample, writes, dirBefore,
                   prevFiles, prevStats>>

\* The while loop ends, the builder returns found, and generate_instances
\* counts the success or appends the tuple to failed_instances.
Return ==
    /\ pc = "build"
    /\ found \/ k >= max_attempts
    /\ LET t == Current
       IN  /\ IF found
              THEN /\ successful_instances' = successful_instances + 1
                   /\ UNCHANGED failed_instances
              ELSE /\ failed_instances' = Append(failed_instances, t)
                   /\ UNCHANGED successful_instances
           /\ outcomes' = Append(outcomes,
                                 [ t |-> t, success |-> found, k |-> k,
                                   content |-> IF writes > 0 THEN files[FileName(t)] ELSE <<>> ])
    /\ idx' = idx + 1
    /\ pc' = "sweep"
    /\ UNCHANGED <<config, gen, rngState, files, run, total_instances, statistics,
                   found, k, lastSeed, lastDraws, lastSample, writes, dirBefore,
                   prevFiles, prevStats>>

\* The loops are exhausted: generate_instances builds and returns the statistics.
Finish ==
    /\ pc = "sweep"
    /\ idx = TotalCombos(config)
    /\ statistics' = << [ total_attempted  |-> total_instances,
                          successful       |-> successful_instances,
                          failed           |-> Len(failed_instances),
                          success_rate     |-> success_rate(successful_instances, total_instances),
                          failed_instances |-> failed_instances ] >>
    /\ pc' = "done"
    /\ UNCHANGED <<config, gen, rngState, files, run, idx, total_instances,
                   successful_instances, failed_instances, found, k, lastSeed,
                   lastDraws, lastSample, writes, dirBefore, outcomes, prevFiles, prevStats>>

\* generate_instances is called a second time with the same configuration, in
\* the same process or a new one, into the same directory or an empty one.
Rerun ==
    /\ pc = "done"
    /\ run = 1
    /\ run' = 2
    /\ prevFiles' = files
    /\ prevStats' = statistics
    /\ \E fresh \in BOOLEAN : files' = IF fresh THEN EmptyDir ELSE files
    /\ rngState' \in RngStartStates \cup {rngState}
    /\ statistics' = <<>>
    /\ idx' = 0
    /\ total_instances' = 0
    /\ successful_instances' = 0
    /\ failed_instances' = <<>>
    /\ outcomes' = <<>>
    /\ pc' = "sweep"
    /\ UNCHANGED <<config, gen, found, k, lastSeed, lastDraws, lastSample, writes, dirBefore>>

Next == StartTuple \/ Attempt \/ Return \/ Finish \/ Rerun

\* sweeps over the configurations of the data model
Spec == Init /\ [][Next]_vars

\* sweeps over every configuration, fraction pairs with min > max included
SpecAny == InitAny /\ [][Next]_vars

-----------------------------------------------------------------------------
(* Vocabulary of the properties *)

\* the derived integer bounds of t leave randint an empty range
Inverted(t) ==
    LET p == Derived(t) IN p.w_min > p.w_max \/ p.s_min > p.s_max

\* some fraction pair of c has min > max
Unordered(c) ==
    \/ \E i \in 1..Len(c.item_weight_ranges) : c.item_weight_ranges[i][1] > c.item_weight_ranges[i][2]
    \/ \E i \in 1..Len(c.setup_weight_ranges) : c.setup_weight_ranges[i][1] > c.setup_weight_ranges[i][2]

Malformed(c) == Unordered(c) \/ TotalCombos(c) = 0

\* no draw can give every class its minimum
Infeasible(t) == t.n < t.m * config.min_items_per_class

RECURSIVE FailedTuples(_)
\* the tuples of the failed builds among outs, in order
FailedTuples(outs) ==
    IF outs = <<>> THEN <<>>
    ELSE (IF Head(outs).success THEN <<>> ELSE <<Head(outs).t>>) \o FailedTuples(Tail(outs))

RECURSIVE CountSuccess(_)
CountSuccess(outs) ==
    IF outs = <<>> THEN 0
    ELSE (IF Head(outs).success THEN 1 ELSE 0) + CountSuccess(Tail(outs))

\* the class-definition lines and the weight lines of a file
ClassRecords(file) == SelectSeq(file, LAMBDA line : Len(line) = 3)
WeightLines(file) == SelectSeq(file, LAMBDA line : Len(line) = 1)

RECURSIVE SumCounts(_)
SumCounts(records) ==
    IF records = <<>> THEN 0 ELSE Head(records)[3] + SumCounts(Tail(records))

\* kinds repeated: Repeat(<<a, b>>, 2) = <<a, b, a, b>>
RECURSIVE Repeat(_, _)
Repeat(kinds, times) == IF times <= 0 THEN <<>> ELSE kinds \o Repeat(kinds, times - 1)

\* two tuples that differ in their seed and in nothing else
SameButSeed(t, u) == t.seed # u.seed /\ [ t EXCEPT !.seed = u.seed ] = u

-----------------------------------------------------------------------------
(* C1: malformed configuration *)

\* the statistics of a sweep over no tuple
EmptyStatistics ==
    << [ total_attempted |-> 0, successful |-> 0, failed |-> 0,
         success_rate |-> <<0, 1>>, failed_instances |-> <<>> ] >>

-----------------------------------------------------------------------------
(* C2: file names *)

\* C2 as stated: two distinct tuples of the cross-product never share a file
\* name, so no successful instance overwrites another one of the same run.
C2_NamesInjectiveOverTuples ==
    \A i, j \in 1..Len(outcomes) :
        (outcomes[i].t # outcomes[j].t /\ outcomes[i].success /\ outcomes[j].success)
            => FileName(outcomes[i].t) # FileName(outcomes[j].t)

\* C2 amended: the file name is injective over the derived tuple
\* (d, n, m, w_min, w_max, s_min, s_max, f, seed): two tuples of a run share
\* a file name exactly when their derived tuples are equal, so a successful
\* instance overwrites the file of another one exactly when their fraction
\* pairs derive the same integer bounds; the file of every successful
\* instance stays in the directory.
C2_NamesInjectiveOverDerived ==
    /\ \A i, j \in 1..Len(outcomes) :
          (FileName(outcomes[i].t) = FileName(outcomes[j].t))
              <=> (Derived(outcomes[i].t) = Derived(outcomes[j].t))
    /\ \A i \in 1..Len(outcomes) :
          outcomes[i].success => FileName(outcomes[i].t) \in DOMAIN files

\* two distinct tuples of one run were built and wrote the same file
C2_Witness ==
    \E i, j \in 1..Len(outcomes) :
        /\ i < j
        /\ outcomes[i].t # outcomes[j].t
        /\ outcomes[i].success /\ outcomes[j].success
        /\ FileName(outcomes[i].t) = FileName(outcomes[j].t)

-----------------------------------------------------------------------------
(* C3: infeasible combinations *)

\* C3: a tuple with n < m * min_items_per_class makes the builder run all
\* max_attempts attempts, accept none, write nothing and return failure; the
\* driver appends exactly that tuple to failed_instances and goes on: no
\* state before the return of the statistics is an error or stuck, every
\* tuple of the cross-product is handed to the builder in order, and the
\* statistics are returned after the last one.  (Every step raises k or idx,
\* so a sweep that is never stuck reaches the return.)
C3_InfeasibleFailsLocally ==
    /\ pc # "error"
    /\ pc = "sweep" => ENABLED (StartTuple \/ Finish)
    /\ pc = "build" => (~found /\ k < max_attempts) \/ ENABLED Return
    /\ (pc = "build" /\ Infeasible(Current)) =>
          /\ ~found
          /\ writes = 0
          /\ files = dirBefore
          /\ k <= max_attempts
    /\ \A i \in 1..Len(outcomes) :
          /\ outcomes[i].t = Tuple(config, i)
          /\ Infeasible(outcomes[i].t) =>
                /\ ~outcomes[i].success
                /\ outcomes[i].k = max_attempts
                /\ outcomes[i].content = <<>>
    /\ failed_instances = FailedTuples(outcomes)
    /\ pc = "done" =>
          /\ Len(outcomes) = TotalCombos(config)
          /\ Len(statistics) = 1
          /\ statistics[1].failed_instances = FailedTuples(outcomes)

\* the statistics were returned after an infeasible tuple failed and a later
\* tuple was built
C3_Witness ==
    /\ pc = "done"
    /\ \E i, j \in 1..Len(outcomes) :
          /\ i < j
          /\ Infeasible(outcomes[i].t)
          /\ outcomes[i].k = max_attempts
          /\ outcomes[i].t \in { failed_instances[h] : h \in 1..Len(failed_instances) }
          /\ outcomes[j].success

-----------------------------------------------------------------------------
(* C4: the minimum class size *)

\* C4: in every accepted draw each of the m classes holds at least
\* min_items_per_class items, and in every file written every class record
\* has an item count of at least min_items_per_class (and, when that minimum
\* is positive, all m classes have a record).
C4_MinItemsPerClass ==
    /\ (pc = "build" /\ found) =>
          /\ Len(lastSample.classes) = Current.m
          /\ \A cl \in 1..Current.m :
                Len(lastSample.classes[cl]) >= config.min_items_per_class
    /\ \A name \in DOMAIN files :
          LET records == ClassRecords(files[name])
          IN  /\ \A r \in 1..Len(records) : records[r][3] >= config.min_items_per_class
              /\ config.min_items_per_class >= 1 => Len(records) = files[name][1][2]

\* a draw was accepted at a minimum of two items per class after an earlier
\* draw of the same invocation had been rejected
C4_Witness ==
    /\ pc = "build"
    /\ found
    /\ k > 1
    /\ config.min_items_per_class = 2
    /\ FileName(Current) \in DOMAIN files

-----------------------------------------------------------------------------
(* C5: the statistics *)

\* C5: when the sweep returns, total_attempted is the size of the
\* cross-product, successful + failed = total_attempted, failed is the
\* length of failed_instances, failed_instances holds exactly the tuples
\* whose build failed, and success_rate is successful / total_attempted * 100
\* (0 for an empty cross-product).
C5_StatisticsConsistent ==
    pc = "done" =>
        /\ Len(statistics) = 1
        /\ LET st == statistics[1]
           IN  /\ st.total_attempted = TotalCombos(config)
               /\ st.successful + st.failed = st.total_attempted
               /\ st.failed = Len(st.failed_instances)
               /\ st.failed_instances = FailedTuples(outcomes)
               /\ st.successful = CountSuccess(outcomes)
               /\ \A i \in 1..Len(outcomes) : outcomes[i].t = Tuple(config, i)
               /\ IF st.total_attempted = 0
                  THEN st.success_rate[1] = 0
                  ELSE st.success_rate[1] * st.total_attempted
                          = st.successful * 100 * st.success_rate[2]

\* a sweep of 3 combinations returned with 1 failure: 3, 2, 1 and 200/3
C5_Witness ==
    /\ pc = "done"
    /\ statistics[1].total_attempted = 3
    /\ statistics[1].successful = 2
    /\ statistics[1].failed = 1
    /\ statistics[1].success_rate = <<200, 3>>

-----------------------------------------------------------------------------
(* C6: determinism and re-run *)

\* C6: a second run with the same configuration returns the statistics of
\* the first and leaves the directory as the first left it, whether it
\* writes into the same directory or an empty one; while it runs, every
\* file it has written or found holds exactly the lines the first run wrote
\* under that name.
C6_Deterministic ==
    run = 2 =>
        /\ \A name \in DOMAIN files :
              /\ name \in DOMAIN prevFiles
              /\ files[name] = prevFiles[name]
        /\ pc = "done" =>
              /\ files = prevFiles
              /\ statistics = prevStats

\* a second run returned after it had written into a directory that already
\* held files
C6_Witness ==
    /\ run = 2
    /\ pc = "done"
    /\ files # EmptyDir
    /\ dirBefore # EmptyDir
    /\ statistics[1].successful > 0

-----------------------------------------------------------------------------
(* C7: a file agrees with its header *)

\* C7: in every file written the item counts of the class records sum to
\* the n of the header and there are exactly n weight lines, whatever
\* min_items_per_class is.
C7_FileConsistentWithHeader ==
    \A name \in DOMAIN files :
        LET file == files[name]
        IN  /\ Len(file[1]) = 4
            /\ SumCounts(ClassRecords(file)) = file[1][1]
            /\ Len(WeightLines(file)) = file[1][1]
            /\ Len(file) = 1 + Len(ClassRecords(file)) + Len(WeightLines(file))

\* a file with fewer class records than the m of its header
C7_Witness ==
    \E name \in DOMAIN files :
        /\ Len(ClassRecords(files[name])) < files[name][1][2]
        /\ files[name][1][1] > 1

-----------------------------------------------------------------------------
(* C8: the order of the draws *)

\* the draws of the items: a class index, then a weight, n times
ItemDraws(n) == Repeat(<<"class_id", "item_weight">>, n)

\* C8 as stated: an attempt draws, after reseeding, a class index and a
\* weight for each item, then one setup weight per class, and only then,
\* when f = 1, one setup cost per class.
C8_SetupCostsDrawnLast ==
    (pc = "build" /\ k > 0) =>
        lastDraws = ItemDraws(Current.n)
                      \o Repeat(<<"setup_weight">>, Current.m)
                      \o (IF Current.f = 0 THEN <<>> ELSE Repeat(<<"setup_cost">>, Current.m))

\* C8 amended: an attempt draws, after reseeding, first one setup cost per
\* class when f = 1 (none when f = 0), then a class index and a weight for
\* each item, then one setup weight per class.
C8_SetupCostsDrawnFirst ==
    (pc = "build" /\ k > 0) =>
        lastDraws = (IF Current.f = 0 THEN <<>> ELSE Repeat(<<"setup_cost">>, Current.m))
                      \o ItemDraws(Current.n)
                      \o Repeat(<<"setup_weight">>, Current.m)

\* an attempt with f = 1 has drawn
C8_Witness ==
    /\ pc = "build"
    /\ k > 0
    /\ Current.f = 1
    /\ Len(lastDraws) = 2 * Current.m + 2 * Current.n
    /\ lastDraws[1] = "setup_cost"

-----------------------------------------------------------------------------
(* C9: the first passing attempt is the one written *)

\* C9: attempt number k0 = 0, 1, 2, ... reseeds with seed + k0; at most
\* max_attempts attempts are made; once a draw is accepted no further attempt
\* is made, the file holds the draw of the smallest k0 that passes the test,
\* and the encoder has been invoked exactly once; as long as no draw is
\* accepted the encoder has not been invoked, the directory is as the
\* invocation found it, and the draw of the last attempt failed the test.
C9_FirstPassingAttemptWritten ==
    pc = "build" =>
        /\ k <= max_attempts
        /\ k > 0 => lastSeed = Current.seed + (k - 1)
        /\ found =>
              /\ k > 0
              /\ writes = 1
              /\ Accepted(SampleOf(gen, Current, k - 1), Current.m, config.min_items_per_class)
              /\ \A j \in 0..(k - 2) :
                    ~Accepted(SampleOf(gen, Current, j), Current.m, config.min_items_per_class)
              /\ lastSample = SampleOf(gen, Current, k - 1)
              /\ files = _write_instance_file(dirBefore, Derived(Current), lastSample)
        /\ ~found =>
              /\ writes = 0
              /\ files = dirBefore
              /\ k > 0 =>
                    /\ lastSample = SampleOf(gen, Current, k - 1)
                    /\ ~Accepted(lastSample, Current.m, config.min_items_per_class)

\* a draw was accepted in the third attempt or later
C9_Witness ==
    /\ pc = "build"
    /\ found
    /\ k >= 3
    /\ writes = 1
    /\ files # dirBefore

-----------------------------------------------------------------------------
(* C10: seed windows overlap *)

\* C10: of two builds that differ only in their base seeds b < b', if the
\* one for b accepts at attempt k0 >= b' - b then the one for b' accepts at
\* attempt k0 - (b' - b), and the two files hold the same lines under
\* different names.
C10_SeedWindowsOverlap ==
    \A i, j \in 1..Len(outcomes) :
        LET a == outcomes[i]
            b == outcomes[j]
        IN  ( /\ SameButSeed(a.t, b.t)
              /\ a.t.seed < b.t.seed
              /\ a.success
              /\ a.k - 1 >= b.t.seed - a.t.seed )
            => /\ b.success
               /\ b.k - 1 = (a.k - 1) - (b.t.seed - a.t.seed)
               /\ b.content = a.content
               /\ b.content # <<>>
               /\ FileName(a.t) # FileName(b.t)

\* two builds of one sweep that differ only in their seeds wrote the same
\* instance, the later seed at an earlier attempt
C10_Witness ==
    \E i, j \in 1..Len(outcomes) :
        /\ SameButSeed(outcomes[i].t, outcomes[j].t)
        /\ outcomes[i].t.seed < outcomes[j].t.seed
        /\ outcomes[i].success
        /\ outcomes[i].k - 1 >= outcomes[j].t.seed - outcomes[i].t.seed
        /\ outcomes[j].success
        /\ outcomes[j].content = outcomes[i].content
        /\ FileName(outcomes[i].t) \in DOMAIN files
        /\ FileName(outcomes[j].t) \in DOMAIN files

====
